---- MODULE Spec2Model ----
(***************************************************************************)
(* Model of the three bun.lock repair scripts                              *)
(*   src/fix_all_trailing_commas.py   (script "all")                       *)
(*   src/fix_json_commas.py           (script "json")                      *)
(*   src/fix_trailing_commas.py       (script "simple")                    *)
(* A document is a sequence of characters; a run of a script reads the     *)
(* file, applies its fix_trailing_commas, overwrites the file and prints.  *)
(* Python indexes from 0, the sequences below from 1.                      *)
(***************************************************************************)
EXTENDS Integers, Sequences, FiniteSets, TLC

VARIABLES script, orig, file, content, fixed_content, pc, stdout, reads, writes

vars == <<script, orig, file, content, fixed_content, pc, stdout, reads, writes>>

\* Longest document (in characters) the file starts with.
MaxLen == 5

NL == "\n"

\* Characters a document is made of: comma, closing brace, a whitespace
\* character, any other character, and the line separator.
Alphabet == {",", "}", " ", "a", NL}

\* Characters str.strip() removes.
Whitespace == {" ", NL}

Scripts == {"all", "json", "simple"}

Documents == UNION {[1..n -> Alphabet] : n \in 0..MaxLen}

-----------------------------------------------------------------------------
(* Python string primitives used by the scripts *)

\* content.split('\n'): always at least one piece
RECURSIVE split_acc(_, _, _)
split_acc(s, cur, acc) ==
  IF s = <<>> THEN Append(acc, cur)
  ELSE IF Head(s) = NL THEN split_acc(Tail(s), <<>>, Append(acc, cur))
       ELSE split_acc(Tail(s), Append(cur, Head(s)), acc)

split(s) == split_acc(s, <<>>, <<>>)

\* variant: ''.join(fixed_lines), the separator forgotten
JoinNoSeparator(ls) ==
  LET RECURSIVE cat(_)
      cat(xs) == IF xs = <<>> THEN <<>> ELSE Head(xs) \o cat(Tail(xs))
  IN cat(ls)

\* '\n'.join(fixed_lines)
RECURSIVE join(_)
join(ls) ==
  IF ls = <<>> THEN <<>>
  ELSE IF Len(ls) = 1 THEN ls[1]
       ELSE ls[1] \o <<NL>> \o join(Tail(ls))

RECURSIVE lstrip(_)
lstrip(s) == IF s # <<>> /\ Head(s) \in Whitespace THEN lstrip(Tail(s)) ELSE s

RECURSIVE rstrip(_)
rstrip(s) ==
  IF s # <<>> /\ s[Len(s)] \in Whitespace THEN rstrip(SubSeq(s, 1, Len(s) - 1)) ELSE s

\* line.strip()
strip(s) == lstrip(rstrip(s))

\* s.endswith(',')
endswith_comma(s) == s # <<>> /\ s[Len(s)] = ","

\* variant: re.sub(r',+$', '', line), the whole run of commas removed
RECURSIVE SubAllTrailingCommas(_)
SubAllTrailingCommas(line) ==
  IF line # <<>> /\ line[Len(line)] = ","
  THEN SubAllTrailingCommas(SubSeq(line, 1, Len(line) - 1))
  ELSE line

\* re.sub(r',$', '', line): '$' matches at the end of the string and just
\* before a newline that ends the string; at most one match exists.
re_sub(line) ==
  IF line # <<>> /\ line[Len(line)] = ","
  THEN SubSeq(line, 1, Len(line) - 1)
  ELSE IF Len(line) >= 2 /\ line[Len(line)] = NL /\ line[Len(line) - 1] = ","
       THEN SubSeq(line, 1, Len(line) - 2) \o <<NL>>
       ELSE line

-----------------------------------------------------------------------------
(* fix_trailing_commas of fix_all_trailing_commas.py *)

\* variant: the look-ahead loop left out, lines[i + 1] is taken as it is
NoLookAhead(lines, j) == j

\* j = i + 1; while j < len(lines) and lines[j].strip() == '': j += 1
RECURSIVE look_ahead(_, _)
look_ahead(lines, j) ==
  IF j <= Len(lines) /\ strip(lines[j]) = <<>> THEN look_ahead(lines, j + 1) ELSE j

\* variant: the test of the following line left out
AlwaysRemove_all(lines, i) ==
  IF endswith_comma(strip(lines[i])) THEN re_sub(lines[i]) ELSE lines[i]

\* variant: lines without a trailing comma are appended right-stripped
EmitStripped_all(lines, i) ==
  LET line == lines[i] IN
  IF endswith_comma(strip(line))
  THEN LET j == look_ahead(lines, i + 1) IN
       IF j <= Len(lines) /\ strip(lines[j]) = <<"}">> THEN re_sub(line) ELSE line
  ELSE rstrip(line)

\* body of the while loop: the line appended to fixed_lines for index i
fixed_line_all(lines, i) ==
  LET line == lines[i] IN
  IF endswith_comma(strip(line))
  THEN LET j == look_ahead(lines, i + 1) IN
       IF j <= Len(lines) /\ strip(lines[j]) = <<"}">> THEN re_sub(line) ELSE line
  ELSE line

RECURSIVE while_all(_, _, _)
while_all(lines, i, fixed_lines) ==
  IF i <= Len(lines)
  THEN while_all(lines, i + 1, Append(fixed_lines, fixed_line_all(lines, i)))
  ELSE fixed_lines

fix_trailing_commas_all(c) == join(while_all(split(c), 1, <<>>))

-----------------------------------------------------------------------------
(* fix_trailing_commas of fix_json_commas.py *)

RECURSIVE next_line_idx(_, _)
next_line_idx(lines, j) ==
  IF j <= Len(lines) /\ strip(lines[j]) = <<>> THEN next_line_idx(lines, j + 1) ELSE j

\* variant: next_line.startswith('}') instead of next_line == '}'
BraceFirst_json(lines, i) ==
  LET line == lines[i] IN
  IF endswith_comma(strip(line))
  THEN LET n == next_line_idx(lines, i + 1) IN
       IF n <= Len(lines)
       THEN LET next_line == strip(lines[n]) IN
            IF next_line # <<>> /\ Head(next_line) = "}" THEN re_sub(line) ELSE line
       ELSE line
  ELSE line

\* body of the for loop
fixed_line_json(lines, i) ==
  LET line == lines[i] IN
  IF endswith_comma(strip(line))
  THEN LET n == next_line_idx(lines, i + 1) IN
       IF n <= Len(lines)
       THEN LET next_line == strip(lines[n]) IN
            IF next_line = <<"}">> THEN re_sub(line) ELSE line
       ELSE line
  ELSE line

RECURSIVE for_json(_, _, _)
for_json(lines, i, fixed_lines) ==
  IF i <= Len(lines)
  THEN for_json(lines, i + 1, Append(fixed_lines, fixed_line_json(lines, i)))
  ELSE fixed_lines

fix_trailing_commas_json(c) == join(for_json(split(c), 1, <<>>))

-----------------------------------------------------------------------------
(* fix_trailing_commas of fix_trailing_commas.py *)

\* body of the while loop: only lines[i + 1] is inspected
fixed_line_simple(lines, i) ==
  LET line == lines[i] IN
  IF i + 1 <= Len(lines) /\ endswith_comma(strip(line)) /\ strip(lines[i + 1]) = <<"}">>
  THEN re_sub(line)
  ELSE line

RECURSIVE while_simple(_, _, _)
while_simple(lines, i, fixed_lines) ==
  IF i <= Len(lines)
  THEN while_simple(lines, i + 1, Append(fixed_lines, fixed_line_simple(lines, i)))
  ELSE fixed_lines

fix_trailing_commas_simple(c) == join(while_simple(split(c), 1, <<>>))

\* the function a run of script s calls
fix_trailing_commas(s, c) ==
  CASE s = "all" -> fix_trailing_commas_all(c)
    [] s = "json" -> fix_trailing_commas_json(c)
    [] s = "simple" -> fix_trailing_commas_simple(c)

\* the message the script prints last
message(s) ==
  IF s = "all" THEN "Fixed all trailing commas in bun.lock"
  ELSE "Fixed trailing commas in bun.lock"

-----------------------------------------------------------------------------
(* A run of one script on bun.lock *)

Init ==
  /\ script \in Scripts
  /\ orig \in Documents
  /\ file = orig
  /\ content = <<>>
  /\ fixed_content = <<>>
  /\ pc = "start"
  /\ stdout = <<>>
  /\ reads = 0
  /\ writes = 0

\* variant: the read error is swallowed and the run goes on with no content
ReadFailContinues ==
  /\ pc = "start"
  /\ pc' = "read"
  /\ content' = <<>>
  /\ UNCHANGED <<script, orig, file, fixed_content, stdout, reads, writes>>

\* with open('bun.lock', 'r') as f: content = f.read()
ReadFile ==
  /\ pc = "start"
  /\ content' = file
  /\ reads' = reads + 1
  /\ pc' = "read"
  /\ UNCHANGED <<script, orig, file, fixed_content, stdout, writes>>

\* open or read raises (file not found, permission denied): uncaught, exit
ReadFail ==
  /\ pc = "start"
  /\ pc' = "failed"
  /\ UNCHANGED <<script, orig, file, content, fixed_content, stdout, reads, writes>>

\* fixed_content = fix_trailing_commas(content)
Transform ==
  /\ pc = "read"
  /\ fixed_content' = fix_trailing_commas(script, content)
  /\ pc' = "fixed"
  /\ UNCHANGED <<script, orig, file, content, stdout, reads, writes>>

\* open('bun.lock', 'w') truncates the file
OpenWrite ==
  /\ pc = "fixed"
  /\ file' = <<>>
  /\ pc' = "opened"
  /\ UNCHANGED <<script, orig, content, fixed_content, stdout, reads, writes>>

\* open('bun.lock', 'w') raises: the file is left as it was
OpenWriteFail ==
  /\ pc = "fixed"
  /\ pc' = "failed"
  /\ UNCHANGED <<script, orig, file, content, fixed_content, stdout, reads, writes>>

\* f.write(fixed_content) and the close at the end of the with block
WriteFile ==
  /\ pc = "opened"
  /\ file' = fixed_content
  /\ writes' = writes + 1
  /\ pc' = "written"
  /\ UNCHANGED <<script, orig, content, fixed_content, stdout, reads>>

\* the write or the close raises: some prefix of the text reached the file
WriteFail ==
  /\ pc = "opened"
  /\ \E n \in 0..Len(fixed_content) : file' = SubSeq(fixed_content, 1, n)
  /\ pc' = "failed"
  /\ UNCHANGED <<script, orig, content, fixed_content, stdout, reads, writes>>

\* print("Fixed ... trailing commas in bun.lock")
PrintMessage ==
  /\ pc = "written"
  /\ stdout' = Append(stdout, message(script))
  /\ pc' = "done"
  /\ UNCHANGED <<script, orig, file, content, fixed_content, reads, writes>>

Next ==
  \/ ReadFile
  \/ ReadFail
  \/ Transform
  \/ OpenWrite
  \/ OpenWriteFail
  \/ WriteFile
  \/ WriteFail
  \/ PrintMessage

Spec == Init /\ [][Next]_vars

-----------------------------------------------------------------------------
(* Vocabulary of the properties, stated on characters and positions *)

\* the transform has run: content and fixed_content are both bound
Transformed == pc \in {"fixed", "opened", "written", "done"}

InLines == split(content)

OutLines == split(fixed_content)

IsBlank(l) == \A p \in 1..Len(l) : l[p] \in Whitespace

\* l, trimmed, is exactly the one character c
TrimmedIs(l, c) ==
  \E p \in 1..Len(l) : l[p] = c /\ \A q \in (1..Len(l)) \ {p} : l[q] \in Whitespace

\* p is the position of the comma that ends l once trailing whitespace is trimmed
TrailingCommaAt(l, p) ==
  p \in 1..Len(l) /\ l[p] = "," /\ \A q \in (p + 1)..Len(l) : l[q] \in Whitespace

EndsInComma(l) == \E p \in 1..Len(l) : TrailingCommaAt(l, p)

LastCharIsComma(l) == l # <<>> /\ l[Len(l)] = ","

WithoutChar(l, p) == SubSeq(l, 1, p - 1) \o SubSeq(l, p + 1, Len(l))

\* j is the first non-blank line after line i
NextNonBlank(ls, i, j) ==
  j \in (i + 1)..Len(ls) /\ ~IsBlank(ls[j]) /\ \A k \in (i + 1)..(j - 1) : IsBlank(ls[k])

\* the next non-blank line after line i is a bare closing brace
BeforeBrace(ls, i) ==
  \E j \in (i + 1)..Len(ls) : NextNonBlank(ls, i, j) /\ TrimmedIs(ls[j], "}")

\* the same, with at least one blank line in between
BeforeBraceAcrossBlanks(ls, i) ==
  \E j \in (i + 2)..Len(ls) : NextNonBlank(ls, i, j) /\ TrimmedIs(ls[j], "}")

Qualifies(ls, i) == EndsInComma(ls[i]) /\ BeforeBrace(ls, i)

SameLineCount == Len(OutLines) = Len(InLines)

-----------------------------------------------------------------------------
\* C1: in fix_all_trailing_commas.py and fix_json_commas.py every line that
\* ends with a comma after trimming and whose next non-blank line is a bare
\* "}" is emitted with exactly that comma removed and every other character,
\* whitespace after the comma included, preserved.
C1_CommaRemovedKeepingWhitespace ==
  (Transformed /\ script \in {"all", "json"}) =>
    /\ SameLineCount
    /\ \A i \in 1..Len(InLines) :
         Qualifies(InLines, i) =>
           \E p \in 1..Len(InLines[i]) :
             /\ TrailingCommaAt(InLines[i], p)
             /\ OutLines[i] = WithoutChar(InLines[i], p)

\* C2: applying the transform to its own output changes nothing.
C2_Idempotent ==
  Transformed => fix_trailing_commas(script, fixed_content) = fixed_content

\* C3 (as stated): the three scripts return the same output for every input.
C3_AllThreeEquivalent ==
  Transformed =>
    /\ fixed_content = fix_trailing_commas_all(content)
    /\ fixed_content = fix_trailing_commas_json(content)
    /\ fixed_content = fix_trailing_commas_simple(content)

\* some line ending in a comma character is separated from a bare "}" by
\* at least one blank line
HasBlankGap(ls) ==
  \E i \in 1..Len(ls) : LastCharIsComma(ls[i]) /\ BeforeBraceAcrossBlanks(ls, i)

\* C3 (amended): fix_json_commas.py returns what fix_all_trailing_commas.py
\* returns on every input; fix_trailing_commas.py returns the same exactly
\* on the inputs without a blank line between a comma and its bare "}".
C3_EquivalentUpToBlankGap ==
  Transformed =>
    /\ script = "json" => fixed_content = fix_trailing_commas_all(content)
    /\ script = "all" => fixed_content = fix_trailing_commas_json(content)
    /\ script = "simple" =>
         (fixed_content = fix_trailing_commas_all(content) <=> ~HasBlankGap(InLines))

C3_Witness ==
  /\ Transformed
  /\ script = "json"
  /\ fixed_content # content
  /\ HasBlankGap(InLines)

\* C4 (as stated): in each of the three scripts a comma-terminated line
\* separated from a bare "}" only by blank lines has its comma removed and
\* the blank lines in between are unchanged.
C4_AllScriptsSkipBlanks ==
  Transformed =>
    /\ SameLineCount
    /\ \A i \in 1..Len(InLines) :
         (LastCharIsComma(InLines[i]) /\ BeforeBraceAcrossBlanks(InLines, i)) =>
           /\ OutLines[i] = WithoutChar(InLines[i], Len(InLines[i]))
           /\ \A j \in (i + 1)..Len(InLines) :
                NextNonBlank(InLines, i, j) =>
                  \A k \in (i + 1)..(j - 1) : OutLines[k] = InLines[k]

\* C4 (amended): in fix_all_trailing_commas.py and fix_json_commas.py a line
\* whose last character is a comma and that is separated from a bare "}" only
\* by blank lines loses that comma, and the blank lines in between are
\* unchanged; fix_trailing_commas.py inspects only the next line and leaves
\* such a line as it is.
C4_TwoScriptsSkipBlanks ==
  Transformed =>
    /\ SameLineCount
    /\ \A i \in 1..Len(InLines) :
         (LastCharIsComma(InLines[i]) /\ BeforeBraceAcrossBlanks(InLines, i)) =>
           /\ script \in {"all", "json"} =>
                OutLines[i] = SubSeq(InLines[i], 1, Len(InLines[i]) - 1)
           /\ script = "simple" => OutLines[i] = InLines[i]
           /\ \A j \in (i + 1)..Len(InLines) :
                NextNonBlank(InLines, i, j) =>
                  \A k \in (i + 1)..(j - 1) : OutLines[k] = InLines[k]

C4_Witness ==
  /\ Transformed
  /\ script \in {"all", "json"}
  /\ \E i \in 1..Len(InLines) :
       /\ LastCharIsComma(InLines[i])
       /\ BeforeBraceAcrossBlanks(InLines, i)
       /\ InLines[i + 1] # <<>>
       /\ OutLines[i] # InLines[i]

\* C5: after a run of fix_all_trailing_commas.py the file holds no line that
\* ends with a comma (after trimming) and whose next non-blank line is a
\* bare "}".
C5_NoCommaBeforeBraceLeft ==
  (script = "all" /\ pc \in {"written", "done"}) =>
    \A i \in 1..Len(split(file)) : ~Qualifies(split(file), i)

\* C6: the output has as many lines as the input, and the line at each index
\* is the input line at that index, possibly shortened at its end; nothing is
\* added, removed or reordered.
C6_LineCountPreserved ==
  Transformed =>
    /\ SameLineCount
    /\ \A i \in 1..Len(InLines) :
         /\ Len(OutLines[i]) <= Len(InLines[i])
         /\ OutLines[i] = SubSeq(InLines[i], 1, Len(OutLines[i]))

C6_Witness ==
  /\ Transformed
  /\ Len(InLines) >= 3
  /\ fixed_content # content
  /\ InLines[Len(InLines)] = <<>>
  /\ Len(OutLines) = Len(InLines)

\* C7: a line ending with a comma is emitted unchanged when it is the last
\* line, or only blank lines follow it, or its next non-blank line is not a
\* bare "}".
C7_NoRemovalWithoutTrigger ==
  Transformed =>
    /\ SameLineCount
    /\ \A i \in 1..Len(InLines) :
         (EndsInComma(InLines[i]) /\ ~BeforeBrace(InLines, i)) =>
           OutLines[i] = InLines[i]

C7_Witness ==
  /\ Transformed
  /\ \E i \in 1..Len(InLines) :
       /\ LastCharIsComma(InLines[i])
       /\ \E j \in (i + 1)..Len(InLines) :
            NextNonBlank(InLines, i, j) /\ InLines[j] = <<"}", ",">>
       /\ OutLines[i] = InLines[i]

\* C8: every line that does not end with a comma after trimming is the same
\* in the output, at the same index.
C8_OtherLinesUntouched ==
  Transformed =>
    /\ SameLineCount
    /\ \A i \in 1..Len(InLines) :
         ~EndsInComma(InLines[i]) => OutLines[i] = InLines[i]

C8_Witness ==
  /\ Transformed
  /\ fixed_content # content
  /\ \E i \in 1..Len(InLines) :
       /\ ~EndsInComma(InLines[i])
       /\ InLines[i] # <<>>
       /\ InLines[i][Len(InLines[i])] \in Whitespace
       /\ OutLines[i] = InLines[i]

\* C9: every output line is its input line, or its input line with exactly
\* one comma deleted; a line ending in two commas before a bare "}" keeps all
\* but the last one; the output document is never longer than the input.
C9_AtMostOneCommaPerLine ==
  Transformed =>
    /\ SameLineCount
    /\ Len(fixed_content) <= Len(content)
    /\ \A i \in 1..Len(InLines) :
         /\ \/ OutLines[i] = InLines[i]
            \/ \E p \in 1..Len(InLines[i]) :
                 InLines[i][p] = "," /\ OutLines[i] = WithoutChar(InLines[i], p)
         /\ (/\ Len(InLines[i]) >= 2
             /\ InLines[i][Len(InLines[i])] = ","
             /\ InLines[i][Len(InLines[i]) - 1] = ","
             /\ BeforeBrace(InLines, i)
             /\ script # "simple")
              => OutLines[i] = SubSeq(InLines[i], 1, Len(InLines[i]) - 1)

C9_Witness ==
  /\ Transformed
  /\ \E i \in 1..Len(InLines) :
       /\ Len(InLines[i]) >= 2
       /\ InLines[i][Len(InLines[i])] = ","
       /\ InLines[i][Len(InLines[i]) - 1] = ","
       /\ OutLines[i] = SubSeq(InLines[i], 1, Len(InLines[i]) - 1)

\* C10: a run reads the file once, then transforms, then writes once, and
\* prints only after the write; a failed step ends the run: nothing follows
\* it, and a failed read leaves the file unwritten and prints nothing.
C10_RunOrdering ==
  /\ [](/\ reads <= 1
        /\ writes <= 1
        /\ pc \in {"read", "fixed", "opened", "written", "done"} =>
             (reads = 1 /\ content = orig)
        /\ pc \in {"start", "read", "fixed"} => (file = orig /\ writes = 0)
        /\ pc \in {"written", "done"} => (writes = 1 /\ file = fixed_content)
        /\ stdout # <<>> => (pc = "done" /\ stdout = <<message(script)>>)
        /\ (pc = "failed" /\ reads = 0) => (file = orig /\ writes = 0)
        /\ pc = "failed" => (stdout = <<>> /\ writes = 0))
  /\ [][pc # "failed"]_vars

C10_Witness ==
  /\ pc = "done"
  /\ stdout # <<>>
  /\ reads = 1
  /\ writes = 1
  /\ file # orig

====
